---- MODULE Spec2Model ----
(***************************************************************************)
(* The in-memory LRU cache with TTL of backend/src/server.js (class        *)
(* LruTtlCache), driven by an arbitrary caller and a wall clock (Spec),     *)
(* and the APOD request handlers that share one cache (ServerSpec).        *)
(*                                                                         *)
(* The JavaScript Map is a sequence of entries in insertion order: the     *)
(* head is the oldest insertion, the end the most recent one.              *)
(***************************************************************************)
EXTENDS Integers, Sequences, FiniteSets, TLC

\* ---------------------------------------------------------------- bounds
MaxClock == 2
MaxTtl == 2
MaxItems == 2
\* clock ticks in a day (86400000 ms in the source)
TicksPerDay == 1

Keys == {"a", "b", "c"}
Values == {"v1", "v2"}

\* -------------------------------------------------------- JavaScript values
\* expiresAt of an entry that never expires (null)
Null == -1
\* what get returns for an absent or expired key
Undefined == "undefined"
\* the key field of the record of a call that takes no key
NoKey == "-"

VARIABLES
    map,      \* this.map: sequence of [key, value, expiresAt], oldest first
    max,      \* this.max
    ttl,      \* this.ttl
    now,      \* Date.now()
    last,     \* the last cache call: op, key, value, ret, at (clock), pre (map before it)
    touched,  \* tracked keys by their last successful get/has hit or set, oldest first
    lastSet,  \* tracked key -> clock time of its last set, Null for the other keys
    scen,     \* progress through set(a); set(b); get(a); set(c) on a new cache
    handlers, \* request handler -> where it is, what it looked up, fetched and sent
    written   \* key and value of the last cache.set a handler made

vars == <<map, max, ttl, now, last, touched, lastSet, scen, handlers, written>>

\* ------------------------------------------------------- Map primitives
\* Map.prototype.has
mapHas(m, key) == \E i \in DOMAIN m : m[i].key = key

\* Map.prototype.get, for a key the map has
mapGet(m, key) == m[CHOOSE i \in DOMAIN m : m[i].key = key]

\* Map.prototype.delete: the other entries keep their order
mapDelete(m, key) == SelectSeq(m, LAMBDA e : e.key # key)

\* Map.prototype.set: a key the map has keeps its position, a new key goes last
mapSet(m, entry) ==
    IF mapHas(m, entry.key)
    THEN [i \in DOMAIN m |-> IF m[i].key = entry.key THEN entry ELSE m[i]]
    ELSE Append(m, entry)

\* Array.from(this.map.keys())
mapKeys(m) == [i \in DOMAIN m |-> m[i].key]

\* ------------------------------------------------------------ LruTtlCache
\* _isExpired with the comparison turned around
isExpiredReversed(entry, t) ==
    /\ entry.expiresAt # Null
    /\ entry.expiresAt # 0
    /\ t < entry.expiresAt

\* _isExpired(entry) for an entry that exists, at clock time t:
\* entry.expiresAt && Date.now() > entry.expiresAt  (null and 0 are falsy)
isExpired(entry, t) ==
    /\ entry.expiresAt # Null
    /\ entry.expiresAt # 0
    /\ t > entry.expiresAt

\* get that leaves a key it hits where it is (insertion order, FIFO)
getNoTouch(m, key, t) ==
    IF ~mapHas(m, key)
    THEN [map |-> m, ret |-> Undefined]
    ELSE LET entry == mapGet(m, key) IN
         IF isExpired(entry, t)
         THEN [map |-> mapDelete(m, key), ret |-> Undefined]
         ELSE [map |-> m, ret |-> entry.value]

\* get that deletes the key it hits and does not insert it again
getConsume(m, key, t) ==
    IF ~mapHas(m, key)
    THEN [map |-> m, ret |-> Undefined]
    ELSE LET entry == mapGet(m, key) IN
         IF isExpired(entry, t)
         THEN [map |-> mapDelete(m, key), ret |-> Undefined]
         ELSE [map |-> mapDelete(m, key), ret |-> entry.value]

\* get that leaves an expired entry in the map
getNoPurge(m, key, t) ==
    IF ~mapHas(m, key)
    THEN [map |-> m, ret |-> Undefined]
    ELSE LET entry == mapGet(m, key) IN
         IF isExpired(entry, t)
         THEN [map |-> m, ret |-> Undefined]
         ELSE [map |-> mapSet(mapDelete(m, key), entry), ret |-> entry.value]

\* get that renews the expiry of the entry it hits (sliding expiration)
getSliding(m, key, t) ==
    IF ~mapHas(m, key)
    THEN [map |-> m, ret |-> Undefined]
    ELSE LET entry == mapGet(m, key) IN
         IF isExpired(entry, t)
         THEN [map |-> mapDelete(m, key), ret |-> Undefined]
         ELSE [map |-> mapSet(mapDelete(m, key),
                              [entry EXCEPT !.expiresAt = IF ttl > 0 THEN t + ttl ELSE Null]),
               ret |-> entry.value]

\* get(key) at clock time t: the map it leaves and the value it returns
get(m, key, t) ==
    IF ~mapHas(m, key)
    THEN [map |-> m, ret |-> Undefined]
    ELSE LET entry == mapGet(m, key) IN
         IF isExpired(entry, t)
         THEN [map |-> mapDelete(m, key), ret |-> Undefined]
         ELSE [map |-> mapSet(mapDelete(m, key), entry), ret |-> entry.value]

\* eviction that starts one entry late: this.map.size > this.max + 1
evictLate(m, cap) == IF Len(m) > cap + 1 THEN Tail(m) ELSE m

\* eviction from the wrong end: the newest entries go
evictNewest(m, cap) == IF Len(m) > cap THEN SubSeq(m, 1, cap) ELSE m

\* eviction that starts one entry early: this.map.size >= this.max
evictEager(m, cap) ==
    IF Len(m) >= cap THEN SubSeq(m, Len(m) - cap + 2, Len(m)) ELSE m

\* the eviction loop of set: while (this.map.size > this.max) delete the first key
RECURSIVE evict(_, _)
evict(m, cap) ==
    IF Len(m) > cap
    THEN evict(mapDelete(m, Head(m).key), cap)
    ELSE m

\* set without the delete of the key's old entry: Map.set keeps its position
setInPlace(m, key, value, t) ==
    LET expiresAt == IF ttl > 0 THEN t + ttl ELSE Null
        inserted  == mapSet(m, [key |-> key, value |-> value, expiresAt |-> expiresAt])
    IN  evict(inserted, max)

\* set without the eviction loop
setNoEvict(m, key, value, t) ==
    LET removed   == IF mapHas(m, key) THEN mapDelete(m, key) ELSE m
        expiresAt == IF ttl > 0 THEN t + ttl ELSE Null
    IN  mapSet(removed, [key |-> key, value |-> value, expiresAt |-> expiresAt])

\* set that makes room before it looks for the key's old entry
setEvictFirst(m, key, value, t) ==
    LET room      == IF Len(m) >= max THEN Tail(m) ELSE m
        removed   == IF mapHas(room, key) THEN mapDelete(room, key) ELSE room
        expiresAt == IF ttl > 0 THEN t + ttl ELSE Null
    IN  mapSet(removed, [key |-> key, value |-> value, expiresAt |-> expiresAt])

\* set that computes now + ttl whatever ttl is
setAlwaysExpires(m, key, value, t) ==
    LET removed   == IF mapHas(m, key) THEN mapDelete(m, key) ELSE m
        inserted  == mapSet(removed, [key |-> key, value |-> value, expiresAt |-> t + ttl])
    IN  evict(inserted, max)

\* set(key, value) at clock time t: the map it leaves
set(m, key, value, t) ==
    LET removed   == IF mapHas(m, key) THEN mapDelete(m, key) ELSE m
        expiresAt == IF ttl > 0 THEN t + ttl ELSE Null
        inserted  == mapSet(removed, [key |-> key, value |-> value, expiresAt |-> expiresAt])
    IN  evict(inserted, max)

\* has as a pure predicate: this.map.has(key)
hasPure(m, key, t) == [map |-> m, ret |-> mapHas(m, key)]

\* has(key): get(key) !== undefined, with get's effect on the map
has(m, key, t) ==
    LET g == get(m, key, t) IN [map |-> g.map, ret |-> (g.ret # Undefined)]

\* delete that always reports a removal
deleteReturnsTrue(m, key) == [map |-> mapDelete(m, key), ret |-> TRUE]

\* delete(key): Map.delete returns whether the key was there
delete(m, key) == [map |-> mapDelete(m, key), ret |-> mapHas(m, key)]

\* clear that drops the expired entries only
clearExpired(m) == SelectSeq(m, LAMBDA e : ~isExpired(e, now))

\* clear()
clear(m) == <<>>

\* size that counts without the sweep
sizeNoSweep(m, t) == [map |-> m, ret |-> Len(m)]

\* size() at clock time t: one pass over a snapshot of the entries
size(m, t) ==
    LET swept == SelectSeq(m, LAMBDA e : ~isExpired(e, t))
    IN  [map |-> swept, ret |-> Len(swept)]

\* keys that sweeps the expired entries first, as size does
keysSwept(m) ==
    LET swept == SelectSeq(m, LAMBDA e : ~isExpired(e, now))
    IN  [map |-> swept, ret |-> mapKeys(swept)]

\* keys()
keys(m) == [map |-> m, ret |-> mapKeys(m)]

\* ------------------------------------------------------ observation state
\* moves key to the end of the sequence of touched keys
touch(s, key) == Append(SelectSeq(s, LAMBDA k : k # key), key)

\* the observations are kept for the keys the map m still tracks
tracked(s, m) == SelectSeq(s, LAMBDA k : mapHas(m, k))
setTimes(f, m) == [k \in Keys |-> IF mapHas(m, k) THEN f[k] ELSE Null]

call(op, key, value, ret) ==
    [op |-> op, key |-> key, value |-> value, ret |-> ret, at |-> now, pre |-> map]

\* the scenario advances when the call is its next step, and is left otherwise
scenario == << [op |-> "set", key |-> "a"], [op |-> "set", key |-> "b"],
               [op |-> "get", key |-> "a"], [op |-> "set", key |-> "c"] >>
ScenOff == Len(scenario) + 1
scenNext(op, key) ==
    IF scen # ScenOff /\ scen < Len(scenario)
       /\ scenario[scen + 1].op = op /\ scenario[scen + 1].key = key
    THEN scen + 1
    ELSE ScenOff

\* two invocations of the route handlers, which can overlap at their await
HandlerIds == {"h1", "h2"}
\* a request handler that has not been invoked: pc, the cache key, the number of
\* upstream calls and of cache.set calls it made, how its upstream call ended,
\* the responses it sent, and whether it awaited its upstream call while
\* another handler awaited one for the same key
idle == [pc |-> "idle", route |-> "-", key |-> "-", lookup |-> "-", calls |-> 0,
         sets |-> 0, outcome |-> "-", responses |-> <<>>, raced |-> FALSE]
noWrite == [key |-> "-", value |-> "-"]

\* ------------------------------------------------------------------ Init
\* new LruTtlCache({ max, ttl }): an empty map
Init ==
    /\ map = <<>>
    /\ max \in 1..MaxItems
    /\ ttl \in -1..MaxTtl
    /\ now = 0
    /\ last = [op |-> "new", key |-> NoKey, value |-> NoKey, ret |-> NoKey,
               at |-> 0, pre |-> <<>>]
    /\ touched = <<>>
    /\ lastSet = [k \in Keys |-> Null]
    /\ scen = 0
    /\ handlers = [h \in HandlerIds |-> idle]
    /\ written = noWrite

\* --------------------------------------------------------------- actions
Get(key) ==
    LET r == get(map, key, now) IN
    /\ map' = r.map
    /\ last' = call("get", key, NoKey, r.ret)
    /\ touched' = tracked(IF r.ret # Undefined THEN touch(touched, key) ELSE touched, r.map)
    /\ lastSet' = setTimes(lastSet, r.map)
    /\ scen' = scenNext("get", key)
    /\ UNCHANGED <<max, ttl, now, handlers, written>>

Set(key, value) ==
    /\ map' = set(map, key, value, now)
    /\ last' = call("set", key, value, NoKey)
    /\ touched' = tracked(touch(touched, key), map')
    /\ lastSet' = setTimes([lastSet EXCEPT ![key] = now], map')
    /\ scen' = scenNext("set", key)
    /\ UNCHANGED <<max, ttl, now, handlers, written>>

Has(key) ==
    LET r == has(map, key, now) IN
    /\ map' = r.map
    /\ last' = call("has", key, NoKey, r.ret)
    /\ touched' = tracked(IF r.ret THEN touch(touched, key) ELSE touched, r.map)
    /\ lastSet' = setTimes(lastSet, r.map)
    /\ scen' = scenNext("has", key)
    /\ UNCHANGED <<max, ttl, now, handlers, written>>

Delete(key) ==
    LET r == delete(map, key) IN
    /\ map' = r.map
    /\ last' = call("delete", key, NoKey, r.ret)
    /\ touched' = tracked(touched, map')
    /\ lastSet' = setTimes(lastSet, map')
    /\ scen' = scenNext("delete", key)
    /\ UNCHANGED <<max, ttl, now, handlers, written>>

Clear ==
    /\ map' = clear(map)
    /\ last' = call("clear", NoKey, NoKey, NoKey)
    /\ touched' = tracked(touched, map')
    /\ lastSet' = setTimes(lastSet, map')
    /\ scen' = scenNext("clear", NoKey)
    /\ UNCHANGED <<max, ttl, now, handlers, written>>

Size ==
    LET r == size(map, now) IN
    /\ map' = r.map
    /\ last' = call("size", NoKey, NoKey, r.ret)
    /\ touched' = tracked(touched, map')
    /\ lastSet' = setTimes(lastSet, map')
    /\ scen' = scenNext("size", NoKey)
    /\ UNCHANGED <<max, ttl, now, handlers, written>>

KeysCall ==
    LET r == keys(map) IN
    /\ map' = r.map
    /\ last' = call("keys", NoKey, NoKey, r.ret)
    /\ touched' = tracked(touched, map')
    /\ lastSet' = setTimes(lastSet, map')
    /\ scen' = scenNext("keys", NoKey)
    /\ UNCHANGED <<max, ttl, now, handlers, written>>

\* the clock advances between calls, never during one
Tick ==
    /\ now < MaxClock
    /\ now' = now + 1
    /\ scen' = ScenOff
    /\ UNCHANGED <<map, max, ttl, last, touched, lastSet, handlers, written>>

Next ==
    \/ \E key \in Keys : Get(key)
    \/ \E key \in Keys, value \in Values : Set(key, value)
    \/ \E key \in Keys : Has(key)
    \/ \E key \in Keys : Delete(key)
    \/ Clear
    \/ Size
    \/ KeysCall
    \/ Tick

Spec == Init /\ [][Next]_vars

\* ========================================================= request handlers
\* Strings the handlers take apart (query parameters) are sequences of
\* one-character strings; strings they only build and compare are strings.
\* A cached value is the text of the object, so that it compares with Undefined.

RECURSIVE join(_)
join(chars) == IF chars = <<>> THEN "" ELSE Head(chars) \o join(Tail(chars))

isDigit(c) == c \in {"0", "1", "2", "3", "4", "5", "6", "7", "8", "9"}

digit(c) ==
    CASE c = "0" -> 0 [] c = "1" -> 1 [] c = "2" -> 2 [] c = "3" -> 3 [] c = "4" -> 4
      [] c = "5" -> 5 [] c = "6" -> 6 [] c = "7" -> 7 [] c = "8" -> 8 [] c = "9" -> 9

\* the number a sequence of digits writes
RECURSIVE number(_)
number(chars) ==
    IF chars = <<>> THEN 0
    ELSE 10 * number(SubSeq(chars, 1, Len(chars) - 1)) + digit(chars[Len(chars)])

\* a query parameter: req.query.name is undefined when the parameter is absent
absent == [present |-> FALSE, text |-> <<>>]
given(chars) == [present |-> TRUE, text |-> chars]

\* req.query.name || fallback: undefined and '' are falsy
orDefault(q, fallback) == IF q.present /\ q.text # <<>> THEN q.text ELSE fallback

\* String.prototype.trim
RECURSIVE trim(_)
trim(chars) ==
    IF chars # <<>> /\ Head(chars) = " " THEN trim(Tail(chars))
    ELSE IF chars # <<>> /\ chars[Len(chars)] = " "
    THEN trim(SubSeq(chars, 1, Len(chars) - 1))
    ELSE chars

\* /^\d{4}-\d{2}-\d{2}$/.test(s)
matchesDatePattern(chars) ==
    /\ Len(chars) = 10
    /\ \A i \in {1, 2, 3, 4, 6, 7, 9, 10} : isDigit(chars[i])
    /\ chars[5] = "-"
    /\ chars[8] = "-"

daysInMonth(y, m) ==
    IF m = 2
    THEN (IF y % 4 = 0 /\ (y % 100 # 0 \/ y % 400 = 0) THEN 29 ELSE 28)
    ELSE IF m \in {4, 6, 9, 11} THEN 30 ELSE 31

\* isValidDateString(s): the pattern, and new Date(s) is a date whose ISO text
\* starts with s, which is so exactly for a day of the calendar
isValidDateString(chars) ==
    /\ matchesDatePattern(chars)
    /\ LET y == number(SubSeq(chars, 1, 4))
           m == number(SubSeq(chars, 6, 7))
           d == number(SubSeq(chars, 9, 10))
       IN  m \in 1..12 /\ d \in 1..daysInMonth(y, m)

\* parseInt(s, 10): leading blanks, a sign, then the digits up to the first
\* other character; NaN when there is no digit
RECURSIVE digitPrefix(_)
digitPrefix(chars) ==
    IF chars # <<>> /\ isDigit(Head(chars))
    THEN <<Head(chars)>> \o digitPrefix(Tail(chars))
    ELSE <<>>

RECURSIVE parseInt(_)
parseInt(chars) ==
    IF chars # <<>> /\ Head(chars) = " " THEN parseInt(Tail(chars))
    ELSE LET negative == chars # <<>> /\ Head(chars) = "-"
             signed   == chars # <<>> /\ Head(chars) \in {"-", "+"}
             digits   == digitPrefix(IF signed THEN Tail(chars) ELSE chars)
         IN  IF digits = <<>>
             THEN [isNaN |-> TRUE, n |-> 0]
             ELSE [isNaN |-> FALSE,
                   n |-> IF negative THEN 0 - number(digits) ELSE number(digits)]

\* Math.min(50, parsed)
MaxCount == 50
minCount(parsed) == IF parsed < MaxCount THEN parsed ELSE MaxCount

\* the day of clock time t; toISOString().slice(0, 10) writes it, here as its number
day(t) == t \div TicksPerDay
dayText(t) == ToString(day(t))

\* x || null for a field of the upstream object
orNull(v) == IF v \in {Undefined, ""} THEN "null" ELSE v

\* simplifyApod(data): the eight fields kept, as the text of the object
simplifyApod(data) ==
    "{date:" \o data.date
        \o ",title:" \o data.title
        \o ",media_type:" \o data.media_type
        \o ",url:" \o data.url
        \o ",hdurl:" \o orNull(data.hdurl)
        \o ",explanation:" \o data.explanation
        \o ",copyright:" \o orNull(data.copyright)
        \o ",service_version:" \o orNull(data.service_version)
        \o "}"

\* arr.slice().reverse().map(simplifyApod), as the text of the list
RECURSIVE simplifyReversed(_)
simplifyReversed(arr) ==
    IF arr = <<>> THEN ""
    ELSE simplifyApod(arr[Len(arr)])
             \o (IF Len(arr) > 1 THEN "," ELSE "")
             \o simplifyReversed(SubSeq(arr, 1, Len(arr) - 1))

\* Array.isArray(data) ? data : [data], then the list newest first
simplifyList(data) == "[" \o simplifyReversed(data.items) \o "]"

\* what the upstream resolves with: an object, or an array of objects
object(o) == [isArray |-> FALSE, items |-> <<o>>]
array(os) == [isArray |-> TRUE, items |-> os]

\* the message of the Error callNasa throws for an axios error
callNasaMessage(err) ==
    IF err.hasResponse
    THEN "NASA API responded " \o ToString(err.status) \o ": "
             \o (IF err.statusText # "" THEN err.statusText ELSE err.data)
    ELSE "Failed to call NASA API: " \o err.message

\* res.json(body), res.status(code).json({ error, message })
ok(body) == [status |-> 200, body |-> body]
badRequest(message) == [status |-> 400, body |-> "Bad Request: " \o message]
badGateway(message) == [status |-> 502, body |-> "Bad Gateway: " \o message]

\* ------------------------------------------------------ requests and upstream
ValidDate == <<"2", "0", "2", "4", "-", "0", "2", "-", "2", "9">>
NoSuchDay == <<"2", "0", "2", "3", "-", "0", "2", "-", "2", "9">>
ShortMonth == <<"2", "0", "2", "4", "-", "2", "-", "2", "9">>

\* values of ?date= and of ?count=
DateQueries ==
    {absent, given(<<" ">>), given(<<" ">> \o ValidDate \o <<" ">>),
     given(NoSuchDay), given(ShortMonth)}
CountQueries ==
    {absent, given(<<"0">>), given(<<"x">>), given(<<"-", "1">>),
     given(<<" ", "6", "0", "x">>)}

ApodImage ==
    [date |-> "2024-02-29", title |-> "t1", media_type |-> "image", url |-> "u1",
     hdurl |-> "h1", explanation |-> "e1", copyright |-> "c1",
     service_version |-> "v1", thumbnail_url |-> Undefined]
ApodVideo ==
    [date |-> "2024-02-28", title |-> "t2", media_type |-> "video", url |-> "u2",
     hdurl |-> Undefined, explanation |-> "e2", copyright |-> "",
     service_version |-> "v1", thumbnail_url |-> "th2"]

\* what the upstream resolves with for one day, and for a range of days
DayData == {object(ApodImage), object(ApodVideo)}
RangeData == {array(<<ApodVideo, ApodImage>>), object(ApodImage)}

\* the axios errors: a response with an error status, and no response
UpstreamErrors ==
    {[hasResponse |-> TRUE, status |-> 429, statusText |-> "Too Many Requests",
      data |-> "{}", message |-> "Request failed with status code 429"],
     [hasResponse |-> FALSE, status |-> 0, statusText |-> "",
      data |-> "", message |-> "timeout of 10000ms exceeded"]}

\* ------------------------------------------------------------- the handlers
\* the lookup without the return: a hit answers and goes on to the upstream call
lookupNoReturn(m, key, t) ==
    LET g == get(m, key, t) IN
    IF g.ret # Undefined /\ g.ret # ""
    THEN [map |-> g.map, hit |-> FALSE, responses |-> <<ok(g.ret)>>]
    ELSE [map |-> g.map, hit |-> FALSE, responses |-> <<>>]

\* const cached = cache.get(key); if (cached) return res.json(cached);
lookup(m, key, t) ==
    LET g == get(m, key, t) IN
    IF g.ret # Undefined /\ g.ret # ""
    THEN [map |-> g.map, hit |-> TRUE, responses |-> <<ok(g.ret)>>]
    ELSE [map |-> g.map, hit |-> FALSE, responses |-> <<>>]

\* a handler that leaves the cache alone when the key got a value meanwhile
populateIfAbsent(m, key, value, t) ==
    IF mapHas(m, key)
    THEN [map |-> m, sets |-> 0, responses |-> <<ok(value)>>]
    ELSE [map |-> set(m, key, value, t), sets |-> 1, responses |-> <<ok(value)>>]

\* cache.set(key, simplified); return res.json(simplified);
populate(m, key, value, t) ==
    [map |-> set(m, key, value, t), sets |-> 1, responses |-> <<ok(value)>>]

\* a catch that caches the error it answers with
failedCachesError(m, key, message, t) ==
    [map |-> set(m, key, badGateway(message).body, t), sets |-> 1,
     responses |-> <<badGateway(message)>>]

\* catch (err): return res.status(502).json(...)
failed(m, key, message, t) ==
    [map |-> m, sets |-> 0, responses |-> <<badGateway(message)>>]

\* handler h waits for its upstream call for key
awaits(h, key) == handlers[h].pc = "awaiting" /\ handlers[h].key = key

\* the handler up to its await: the lookup, then the answer or the upstream call
begin(h, route, key) ==
    LET r == lookup(map, key, now) IN
    /\ map' = r.map
    /\ handlers' = [g \in HandlerIds |->
           IF g = h
           THEN [pc |-> IF r.hit THEN "done" ELSE "awaiting",
                 route |-> route, key |-> key,
                 lookup |-> IF r.hit THEN "hit" ELSE "miss",
                 calls |-> IF r.hit THEN 0 ELSE 1,
                 sets |-> 0, outcome |-> "-", responses |-> r.responses,
                 raced |-> ~r.hit /\ \E o \in HandlerIds \ {h} : awaits(o, key)]
           ELSE IF ~r.hit /\ awaits(g, key)
           THEN [handlers[g] EXCEPT !.raced = TRUE]
           ELSE handlers[g]]

\* return res.status(400).json(...) before the cache is looked at
reject(h, route, message) ==
    /\ map' = map
    /\ handlers' = [handlers EXCEPT ![h] =
           [idle EXCEPT !.pc = "done", !.route = route,
                        !.responses = <<badRequest(message)>>]]

\* GET /api/apod/today
TodayRequest(h) ==
    /\ handlers[h].pc = "idle"
    /\ begin(h, "today", "apod:today")
    /\ UNCHANGED <<max, ttl, now, last, touched, lastSet, scen, written>>

\* GET /api/apod?date=
DateRequest(h, q) ==
    /\ handlers[h].pc = "idle"
    /\ LET date == trim(orDefault(q, <<>>)) IN
       IF date = <<>>
       THEN reject(h, "date", "Missing required query param: date=YYYY-MM-DD")
       ELSE IF ~isValidDateString(date)
       THEN reject(h, "date", "Invalid date format. Use YYYY-MM-DD")
       ELSE begin(h, "date", "apod:date:" \o join(date))
    /\ UNCHANGED <<max, ttl, now, last, touched, lastSet, scen, written>>

\* GET /api/apod/recent?count=
RecentRequest(h, q) ==
    /\ handlers[h].pc = "idle"
    /\ LET parsed == parseInt(orDefault(q, <<"1", "0">>)) IN
       IF parsed.isNaN \/ parsed.n <= 0
       THEN reject(h, "recent", "Invalid count. Must be a positive integer.")
       ELSE LET count == minCount(parsed.n)
                end   == dayText(now)
                start == dayText(now - (count - 1) * TicksPerDay)
            IN  begin(h, "recent", "apod:range:" \o start \o ":" \o end)
    /\ UNCHANGED <<max, ttl, now, last, touched, lastSet, scen, written>>

\* the upstream call of handler h resolves: simplify, cache.set, res.json
UpstreamResolves(h, data) ==
    /\ handlers[h].pc = "awaiting"
    /\ data \in (IF handlers[h].route = "recent" THEN RangeData ELSE DayData)
    /\ LET value == IF handlers[h].route = "recent"
                    THEN simplifyList(data)
                    ELSE simplifyApod(data.items[1])
           p == populate(map, handlers[h].key, value, now)
       IN  /\ map' = p.map
           /\ handlers' = [handlers EXCEPT ![h].pc = "done", ![h].outcome = "ok",
                                           ![h].sets = @ + p.sets,
                                           ![h].responses = @ \o p.responses]
           /\ written' = IF p.sets > 0
                         THEN [key |-> handlers[h].key, value |-> value]
                         ELSE written
    /\ UNCHANGED <<max, ttl, now, last, touched, lastSet, scen>>

\* the upstream call of handler h fails: callNasa throws, the handler answers 502
UpstreamFails(h, err) ==
    /\ handlers[h].pc = "awaiting"
    /\ LET f == failed(map, handlers[h].key, callNasaMessage(err), now)
       IN  /\ map' = f.map
           /\ handlers' = [handlers EXCEPT ![h].pc = "done", ![h].outcome = "fail",
                                           ![h].sets = @ + f.sets,
                                           ![h].responses = @ \o f.responses]
    /\ UNCHANGED <<max, ttl, now, last, touched, lastSet, scen, written>>

\* GET /api/health: cache.size() sweeps the expired entries
Health ==
    /\ map' = size(map, now).map
    /\ UNCHANGED <<max, ttl, now, last, touched, lastSet, scen, handlers, written>>

ServerTick ==
    /\ now < MaxClock
    /\ now' = now + 1
    /\ UNCHANGED <<map, max, ttl, last, touched, lastSet, scen, handlers, written>>

\* CACHE_TTL_MS = Number(env) || default: never 0
ServerInit == Init /\ ttl # 0

ServerNext ==
    \/ \E h \in HandlerIds : TodayRequest(h)
    \/ \E h \in HandlerIds, q \in DateQueries : DateRequest(h, q)
    \/ \E h \in HandlerIds, q \in CountQueries : RecentRequest(h, q)
    \/ \E h \in HandlerIds, data \in DayData \cup RangeData : UpstreamResolves(h, data)
    \/ \E h \in HandlerIds, err \in UpstreamErrors : UpstreamFails(h, err)
    \/ Health
    \/ ServerTick

ServerSpec == ServerInit /\ [][ServerNext]_vars

\* axios settles every call (timeout: 10000) and the event loop runs the handler on
ServerLiveSpec ==
    ServerSpec
        /\ \A h \in HandlerIds :
               WF_vars(\/ \E data \in DayData \cup RangeData : UpstreamResolves(h, data)
                       \/ \E err \in UpstreamErrors : UpstreamFails(h, err))

\* ------------------------------------------------------ claim vocabulary
\* an entry is live at clock time t when it has no expiry or t has not passed it
live(entry, t) == entry.expiresAt = Null \/ t <= entry.expiresAt

liveCount(m, t) == Cardinality({i \in DOMAIN m : live(m[i], t)})

trackedKeys(m) == {m[i].key : i \in DOMAIN m}

entries(m) == {m[i] : i \in DOMAIN m}

\* this step is a call of op (the clock stands still during a call)
isCall(op) == now' = now /\ last'.op = op /\ last'.pre = map /\ last'.at = now

\* the expiry the configuration gives a set at clock time t
expiryOf(t) == IF ttl > 0 THEN t + ttl ELSE Null

\* C1: after every set, at the time of the set and at any later clock time,
\* the number of live entries is at most maxItems.
C1_LiveAtMostMax ==
    last.op = "set" => liveCount(map, last.at) <= max /\ liveCount(map, now) <= max

\* a set of a new key into a full cache of live entries left max live entries
C1_Witness ==
    /\ last.op = "set"
    /\ ~(last.key \in trackedKeys(last.pre))
    /\ liveCount(last.pre, last.at) = max
    /\ liveCount(map, now) = max

\* C2: a set of an untracked key that overflows the capacity removes exactly the
\* tracked key whose last successful get/has hit or set is the oldest, whether
\* or not it is expired; and on a new cache with maxItems = 2, after
\* set(a); set(b); get(a); set(c), get(b) is absent and get(a), get(c) return values.
C2_Overflow ==
    (isCall("set") /\ ~(last'.key \in trackedKeys(map)) /\ Len(map) + 1 > max)
        => /\ trackedKeys(map) \ trackedKeys(map') = {Head(touched)}
           /\ last'.key \in trackedKeys(map')

C2_Example ==
    (scen = Len(scenario) /\ max = 2)
        => /\ get(map, "b", now).ret = Undefined
           /\ get(map, "a", now).ret # Undefined
           /\ get(map, "c", now).ret # Undefined

\* C2: every overflowing set of a new key evicts the least recently used key,
\* and the example sequence ends as stated.
C2_EvictsLeastRecentlyUsed == [](C2_Example) /\ [][C2_Overflow]_vars

\* the overflow removed a live entry that was inserted after an expired one it
\* kept: the kept one had been read since
C2_Witness ==
    /\ last.op = "set"
    /\ Len(last.pre) = 2
    /\ max = 2
    /\ ~(last.key \in trackedKeys(last.pre))
    /\ live(last.pre[1], last.at)
    /\ ~live(last.pre[2], last.at)
    /\ last.pre[1].expiresAt > last.pre[2].expiresAt
    /\ mapKeys(map) = <<last.pre[2].key, last.key>>

\* C3 as stated: with ttl > 0, a get that returns a value, and a key that size
\* counts, are strictly less than ttl after the key's last set.
C3_AbsentFromTtlOn ==
    ttl > 0 =>
        /\ (last.op = "get" /\ last.ret # Undefined)
               => last.at - lastSet[last.key] < ttl
        /\ last.op = "size"
               => \A k \in trackedKeys(map) : last.at - lastSet[k] < ttl

\* C3 amended: with ttl > 0, once more than ttl has elapsed since the last set
\* of k, get(k) returns absent and purges k, and size does not count k.
C3_AbsentAfterTtl ==
    ttl > 0 =>
        /\ (last.op = "get" /\ last.ret # Undefined)
               => last.at - lastSet[last.key] <= ttl
        /\ (last.op = "get" /\ last.ret = Undefined)
               => ~(last.key \in trackedKeys(map))
        /\ last.op = "size"
               => /\ \A k \in trackedKeys(map) : last.at - lastSet[k] <= ttl
                  /\ last.ret = Cardinality(trackedKeys(map))

\* a get found its key tracked and expired, and a size swept an entry
C3_Witness ==
    /\ ttl > 0
    /\ last.op = "get"
    /\ last.key \in trackedKeys(last.pre)
    /\ last.ret = Undefined
    /\ Len(last.pre) = 2
    /\ size(map, now).ret = 1

\* C4: with ttl > 0, a get(k) that directly follows set(k, v1), at a clock time
\* before the set's time plus ttl, returns v1.
C4_Step ==
    (isCall("get") /\ last.op = "set" /\ last.key = last'.key
        /\ ttl > 0 /\ now < last.at + ttl)
        => last'.ret = last.value

\* C4: every get step that directly follows the set of its key returns the set value.
C4_SetThenGet == [][C4_Step]_vars

\* a set of a new key into a full cache has run and the get of it returns its value
C4_Witness ==
    /\ last.op = "set"
    /\ ttl > 0
    /\ now < last.at + ttl
    /\ Len(last.pre) = max
    /\ ~(last.key \in trackedKeys(last.pre))
    /\ get(map, last.key, now).ret = last.value

\* C5: a set of a tracked key leaves exactly one entry for it, the last of
\* keys(), with the new value and an expiry computed from the time of the call.
C5_ResetReplaces ==
    (last.op = "set" /\ last.key \in trackedKeys(last.pre))
        => /\ Cardinality({i \in DOMAIN map : map[i].key = last.key}) = 1
           /\ map # <<>>
           /\ map[Len(map)] = [key |-> last.key, value |-> last.value,
                               expiresAt |-> expiryOf(last.at)]
           /\ keys(map).ret[Len(map)] = last.key
           /\ get(map, last.key, last.at).ret = last.value

\* the key was the oldest, with another value and another expiry
C5_Witness ==
    /\ last.op = "set"
    /\ Len(last.pre) = 2
    /\ last.pre[1].key = last.key
    /\ last.pre[1].value # last.value
    /\ last.pre[1].expiresAt # expiryOf(last.at)
    /\ mapKeys(map) = <<last.pre[2].key, last.key>>

\* C6: delete(k) returns whether k was tracked; after it k is not tracked and
\* get(k) is absent, and the other entries are the same, in the same order.
C6_Delete ==
    last.op = "delete"
        => /\ last.ret = (\E i \in DOMAIN last.pre : last.pre[i].key = last.key)
           /\ ~(last.key \in trackedKeys(map))
           /\ get(map, last.key, last.at).ret = Undefined
           /\ map = SelectSeq(last.pre, LAMBDA e : e.key # last.key)

\* a delete removed the older of two entries
C6_Witness ==
    /\ last.op = "delete"
    /\ last.ret = TRUE
    /\ Len(last.pre) = 2
    /\ last.pre[1].key = last.key
    /\ map = <<last.pre[2]>>

\* a delete of an untracked key changed nothing
C6_WitnessAbsent ==
    /\ last.op = "delete"
    /\ last.ret = FALSE
    /\ Len(last.pre) = 2
    /\ map = last.pre

\* C7: after clear() the cache tracks nothing, and a size() that follows
\* clear() returns 0.
C7_Step ==
    (isCall("size") /\ last.op = "clear")
        => last'.ret = 0 /\ keys(map').ret = <<>>

\* C7: clear() leaves keys() empty and every size() step that follows it returns 0.
C7_ClearThenSize ==
    [](last.op = "clear" => keys(map).ret = <<>>) /\ [][C7_Step]_vars

\* a clear emptied a full cache, and size of it is 0
C7_Witness ==
    /\ last.op = "clear"
    /\ Len(last.pre) = max
    /\ size(map, now).ret = 0

\* C8: a get(k) that directly follows a get(k) that returned a value, at a
\* clock time before the entry's expiry, returns the same value and changes
\* neither the number of entries nor any entry's value or expiresAt.
C8_Step ==
    (isCall("get") /\ last.op = "get" /\ last.key = last'.key
        /\ last.ret # Undefined
        /\ (ttl > 0 => now < lastSet[last.key] + ttl))
        => /\ last'.ret = last.ret
           /\ Len(map') = Len(map)
           /\ entries(map') = entries(map)

\* C8: every get step that repeats a successful get of a live key changes nothing
\* but the order and returns the same value.
C8_RepeatedGet == [][C8_Step]_vars

\* a get of the older of two entries returned its value, and so does the next
C8_Witness ==
    /\ last.op = "get"
    /\ last.ret # Undefined
    /\ Len(last.pre) = 2
    /\ last.pre[1].key = last.key
    /\ (ttl > 0 => now < lastSet[last.key] + ttl)
    /\ get(map, last.key, now).ret = last.ret

\* C9: has(k) returns true exactly when k is tracked and live, which is when
\* get(k) returns a value, and leaves the map get(k) would: k last when live,
\* k removed when expired, nothing changed when absent.
C9_HasIsGet ==
    last.op = "has"
        => LET pre == last.pre
               k   == last.key
               isTracked == \E i \in DOMAIN pre : pre[i].key = k
               e   == mapGet(pre, k)
               others == SelectSeq(pre, LAMBDA x : x.key # k)
           IN  /\ last.ret = (isTracked /\ live(e, last.at))
               /\ last.ret = (get(pre, k, last.at).ret # Undefined)
               /\ map = get(pre, k, last.at).map
               /\ (isTracked /\ live(e, last.at)) => map = Append(others, e)
               /\ (isTracked /\ ~live(e, last.at)) => map = others
               /\ ~isTracked => map = pre

\* a has moved the older of two entries to the end
C9_Witness ==
    /\ last.op = "has"
    /\ last.ret = TRUE
    /\ Len(last.pre) = 2
    /\ last.pre[1].key = last.key
    /\ map = <<last.pre[2], last.pre[1]>>

\* a has purged an expired entry
C9_WitnessExpired ==
    /\ last.op = "has"
    /\ last.ret = FALSE
    /\ last.key \in trackedKeys(last.pre)
    /\ ~(last.key \in trackedKeys(map))

\* C10: keys() returns each tracked key once, the least recently used first,
\* expired entries included, and leaves the map as it was.
C10_Keys ==
    last.op = "keys"
        => /\ map = last.pre
           /\ Len(last.ret) = Len(last.pre)
           /\ \A i \in DOMAIN last.pre : last.ret[i] = last.pre[i].key
           /\ \A i, j \in DOMAIN last.ret : last.ret[i] = last.ret[j] => i = j
           /\ last.ret = touched

\* keys() listed two keys, the one set first last, after a get of it, and expired
C10_Witness ==
    /\ last.op = "keys"
    /\ Len(last.ret) = 2
    /\ live(last.pre[1], last.at)
    /\ ~live(last.pre[2], last.at)
    /\ lastSet[last.ret[2]] < lastSet[last.ret[1]]

\* C11: size() removes exactly the entries expired at the time of the call and
\* returns the number left; no entry left is expired then, and the live
\* entries keep their value, expiresAt and order.
C11_SizeSweeps ==
    last.op = "size"
        => /\ map = SelectSeq(last.pre, LAMBDA e : live(e, last.at))
           /\ \A i \in DOMAIN map : live(map[i], last.at)
           /\ last.ret = Len(map)
           /\ last.ret = liveCount(last.pre, last.at)

\* a size swept the older of two entries and kept the live one
C11_Witness ==
    /\ last.op = "size"
    /\ Len(last.pre) = 2
    /\ ~live(last.pre[1], last.at)
    /\ live(last.pre[2], last.at)
    /\ last.ret = 1
    /\ map = <<last.pre[2]>>

\* a size swept two expired entries in one pass
C11_WitnessAll ==
    /\ last.op = "size"
    /\ Len(last.pre) = 2
    /\ last.ret = 0
    /\ map = <<>>

\* C12: get(k) of an untracked or expired key returns absent and leaves the
\* map without k, the other entries as they were and in the same order.
C12_MissPurges ==
    (last.op = "get"
        /\ \A i \in DOMAIN last.pre :
               last.pre[i].key = last.key => ~live(last.pre[i], last.at))
        => /\ last.ret = Undefined
           /\ ~(last.key \in trackedKeys(map))
           /\ map = SelectSeq(last.pre, LAMBDA e : e.key # last.key)

\* a get purged the expired newer entry of two and left the older one
C12_Witness ==
    /\ last.op = "get"
    /\ Len(last.pre) = 2
    /\ last.pre[2].key = last.key
    /\ ~live(last.pre[2], last.at)
    /\ last.ret = Undefined
    /\ map = <<last.pre[1]>>

\* a get of an untracked key changed nothing
C12_WitnessAbsent ==
    /\ last.op = "get"
    /\ Len(last.pre) = 2
    /\ ~(last.key \in trackedKeys(last.pre))
    /\ last.ret = Undefined
    /\ map = last.pre

\* C13: with ttl <= 0 every entry is stored with expiresAt = null and is never
\* expired: at any clock time get and has of a tracked key return its value
\* and true, and size removes nothing and counts every tracked key.
C13_NeverExpires ==
    ttl <= 0 =>
        /\ \A i \in DOMAIN map : map[i].expiresAt = Null
        /\ (last.op = "get" /\ last.key \in trackedKeys(last.pre))
               => /\ last.ret # Undefined
                  /\ \E i \in DOMAIN last.pre :
                         last.pre[i].key = last.key /\ last.pre[i].value = last.ret
        /\ (last.op = "has" /\ last.key \in trackedKeys(last.pre)) => last.ret = TRUE
        /\ last.op = "size" => map = last.pre /\ last.ret = Len(last.pre)

\* a key set at clock 0 is still returned when the clock has run to its end
C13_Witness ==
    /\ ttl <= 0
    /\ last.op = "get"
    /\ last.at = MaxClock
    /\ lastSet[last.key] = 0
    /\ last.ret # Undefined

\* C14 as stated: a set whose insertion leaves at most maxItems live entries
\* removes no entry but the previous entry of its key.
C14_EvictsOnlyOverLive ==
    last.op = "set"
        => LET others == SelectSeq(last.pre, LAMBDA e : e.key # last.key)
           IN  liveCount(others, last.at) + 1 <= max
                   => trackedKeys(others) \subseteq trackedKeys(map)

\* C14 amended: a set whose insertion leaves at most maxItems tracked entries,
\* live or expired, removes no entry but the previous entry of its key.
C14_EvictsOnlyOverTracked ==
    last.op = "set"
        => LET others == SelectSeq(last.pre, LAMBDA e : e.key # last.key)
           IN  Len(others) + 1 <= max
                   => SelectSeq(map, LAMBDA e : e.key # last.key) = others

\* a set of a new key filled the cache to maxItems and removed nothing
C14_Witness ==
    /\ last.op = "set"
    /\ max = 2
    /\ Len(last.pre) = 1
    /\ ~(last.key \in trackedKeys(last.pre))
    /\ mapKeys(map) = <<last.pre[1].key, last.key>>

\* C17: between calls the map tracks at most maxItems entries, live or expired;
\* inside a set the insertion exceeds the bound by at most one entry, and the
\* eviction loop removes at most one.
C17_TrackedAtMostMax ==
    /\ Len(map) <= max
    /\ Len(keys(map).ret) <= max
    /\ last.op = "set"
           => LET others == SelectSeq(last.pre, LAMBDA e : e.key # last.key)
              IN  /\ Len(others) + 1 <= max + 1
                  /\ Cardinality(trackedKeys(others) \ trackedKeys(map)) <= 1

\* a set into a full cache left it full, an expired entry among the tracked ones
C17_Witness ==
    /\ last.op = "set"
    /\ max = 2
    /\ Len(last.pre) = 2
    /\ ~(last.key \in trackedKeys(last.pre))
    /\ Len(map) = 2
    /\ ~live(map[1], now)

\* C18: a set of a tracked key evicts nothing: the tracked keys are the same
\* before and after, and the other entries keep their order.
C18_ResetEvictsNothing ==
    (last.op = "set" /\ last.key \in trackedKeys(last.pre))
        => /\ trackedKeys(map) = trackedKeys(last.pre)
           /\ SelectSeq(map, LAMBDA e : e.key # last.key)
                  = SelectSeq(last.pre, LAMBDA e : e.key # last.key)

\* a set of the newest key of a full cache
C18_Witness ==
    /\ last.op = "set"
    /\ max = 2
    /\ Len(last.pre) = 2
    /\ last.pre[2].key = last.key
    /\ mapKeys(map) = mapKeys(last.pre)

\* a set of the oldest key of a full cache
C18_WitnessOldest ==
    /\ last.op = "set"
    /\ max = 2
    /\ Len(last.pre) = 2
    /\ last.pre[1].key = last.key
    /\ mapKeys(map) = <<last.pre[2].key, last.key>>

\* a get or has that found its key live
hit == \/ last.op = "get" /\ last.ret # Undefined
       \/ last.op = "has" /\ last.ret = TRUE

\* C19: a successful get or has moves its key to the end and changes no entry;
\* with ttl > 0 every entry's expiresAt is the time of its last set plus ttl,
\* and no get or has succeeds once the clock has passed that time.
C19_NoSlidingExpiry ==
    /\ hit => /\ map # <<>>
              /\ map[Len(map)].key = last.key
              /\ entries(map) = entries(last.pre)
              /\ SelectSeq(map, LAMBDA e : e.key # last.key)
                     = SelectSeq(last.pre, LAMBDA e : e.key # last.key)
    /\ ttl > 0 => \A i \in DOMAIN map : map[i].expiresAt = lastSet[map[i].key] + ttl
    /\ (ttl > 0 /\ hit) => last.at <= lastSet[last.key] + ttl

\* a get after the clock advanced moved the older of two entries, its expiry unchanged
C19_Witness ==
    /\ ttl > 0
    /\ last.op = "get"
    /\ last.ret # Undefined
    /\ last.at > lastSet[last.key]
    /\ Len(last.pre) = 2
    /\ last.pre[1].key = last.key
    /\ map = <<last.pre[2], last.pre[1]>>

\* ------------------------------------------------- claims about the handlers
fetched(h) == handlers[h].pc = "done" /\ handlers[h].outcome = "ok"
refused(h) == handlers[h].pc = "done" /\ handlers[h].outcome = "fail"
answeredFromCache(h) == handlers[h].pc = "done" /\ handlers[h].lookup = "hit"
rejected(h) == handlers[h].pc = "done" /\ handlers[h].lookup = "-"

\* C15: there is no single flight: every handler whose lookup missed has its
\* own upstream call, also while another handler waits for the same key, and
\* every handler whose fetch succeeded wrote the cache once; the value the
\* cache holds for a key handlers wrote is the one of the last cache.set.
C15_NoSingleFlight ==
    /\ \A h \in HandlerIds :
           /\ handlers[h].lookup = "miss" => handlers[h].calls = 1
           /\ fetched(h) => handlers[h].sets = 1
    /\ \A i \in DOMAIN map :
           map[i].key = written.key => map[i].value = written.value

\* two handlers missed the same key together, fetched different data and both
\* wrote: the cache holds what the last one wrote, which the other did not send
C15_Witness ==
    \E g, h \in HandlerIds :
        /\ g # h
        /\ handlers[g].key = handlers[h].key
        /\ handlers[g].raced /\ handlers[h].raced
        /\ fetched(g) /\ fetched(h)
        /\ handlers[g].sets = 1 /\ handlers[h].sets = 1
        /\ handlers[g].responses # handlers[h].responses
        /\ written.key = handlers[h].key
        /\ handlers[h].responses = <<ok(written.value)>>
        /\ \E i \in DOMAIN map :
               map[i].key = written.key /\ map[i].value = written.value

\* C16: a handler calls the upstream only after its lookup missed and writes
\* the cache only after its call resolved; a handler whose call failed sent
\* one 502 and wrote nothing, and the step in which it fails leaves the cache
\* as it was.
C16_State ==
    \A h \in HandlerIds :
        /\ handlers[h].calls > 0 => handlers[h].lookup = "miss"
        /\ handlers[h].sets > 0 => handlers[h].outcome = "ok"
        /\ refused(h) => /\ handlers[h].sets = 0
                         /\ Len(handlers[h].responses) = 1
                         /\ handlers[h].responses[1].status = 502

C16_Step ==
    \A h \in HandlerIds :
        (handlers[h].pc = "awaiting" /\ handlers'[h].outcome = "fail")
            => map' = map /\ written' = written

C20_OneResponse ==
    \A h \in HandlerIds :
        /\ handlers[h].pc # "done" => handlers[h].responses = <<>>
        /\ handlers[h].pc = "done"
               => /\ Len(handlers[h].responses) = 1
                  /\ \/ answeredFromCache(h) /\ handlers[h].responses[1].status = 200
                     \/ fetched(h) /\ handlers[h].responses[1].status = 200
                                   /\ handlers[h].sets = 1
                     \/ refused(h) /\ handlers[h].responses[1].status = 502
                     \/ rejected(h) /\ handlers[h].responses[1].status = 400
                                    /\ handlers[h].calls = 0

C20_WitnessErrors ==
    \E g, h \in HandlerIds :
        /\ rejected(g)
        /\ handlers[g].responses[1].status = 400
        /\ refused(h)
        /\ handlers[h].responses[1].status = 502
====
